---- MODULE Spec2Model ----
(***************************************************************************)
(* Model of the sync-test MCP server (check_connection / run_sync polling  *)
(* and retry tools), of the CRUDConnection query methods and of the MDX    *)
(* generator's escape_mdx_special_chars.                                   *)
(*                                                                         *)
(* Python dictionaries are TLA+ records: a key that the code does not set  *)
(* is a field the record does not have, and `"k" in d` is                  *)
(* "k" \in DOMAIN d.  Formatted strings are tuples <<text, argument...>>.  *)
(* Time is in whole seconds.                                               *)
(***************************************************************************)
EXTENDS Integers, Sequences, FiniteSets, TLC

VARIABLES
    tool,        \* the tool being invoked: "none", "check_connection", "run_sync"
    short_name,  \* the short_name argument of the invocation
    pc,          \* position of the invocation's single task
    clock,       \* time.time()
    start_time,  \* check_connection's start_time
    resp,        \* the backend's answer to the status GET just handled
    result,      \* result / connection_result: last check_connection_status value
    ret,         \* the value the tool returned
    polls,       \* status GETs sent by this invocation
    sleeps,      \* asyncio.sleep calls completed by this invocation
    slept,       \* sum of the delays passed to asyncio.sleep
    posted,      \* the backend's answers to the sync-trigger POSTs, in order
    seen,        \* kinds of the poll results check_connection has handled
    db,          \* the connection table: a sequence of rows
    query,       \* the last CRUDConnection query and its arguments
    rows,        \* the list the last query returned
    text,        \* the argument of escape_mdx_special_chars
    escaped,     \* what escape_mdx_special_chars returned for text
    again        \* what it returned when applied to that result

vars == <<tool, short_name, pc, clock, start_time, resp, result, ret, polls,
          sleeps, slept, posted, seen, db, query, rows, text, escaped, again>>

mcpVars == <<tool, short_name, pc, clock, start_time, resp, result, ret, polls,
             sleeps, slept, posted, seen>>

crudVars == <<db, query, rows>>

mdxVars == <<text, escaped, again>>

----------------------------------------------------------------------------
(* Constants of server.py *)

CONNECTION_CHECK_TIMEOUT == 300

CONNECTION_CHECK_INTERVAL == 5

MAX_RETRIES == 3

RETRY_DELAY == 2

(* Bounds of the model *)

\* longest time, in seconds, an HTTP request of a poll takes beyond zero
MaxPollTime == 1

\* longest time, in seconds, a sleep overshoots the delay asked for
MaxJitter == 1

\* rows in the connection table
MaxConns == 2

ShortNames == {"github", "slack"}

StartClocks == {0, 3}

StatusCodes == {200, 400, 404, 500, 502, 503}

\* a response body: a JSON object, or something that is not JSON
Bodies == {"json_object", "not_json"}

\* what a request can end in: an HTTP response, or no response at all
\* (connection refused, timeout, ...)
Responses ==
    [kind : {"http"}, code : StatusCodes, body : Bodies]
        \cup {[kind |-> "failure", code |-> 0, body |-> "none"]}

NoResponse == [kind |-> "none", code |-> 0, body |-> "none"]

NoResult == [status |-> "none"]

\* Python values handled by the MDX generator: None, or a str given by its
\* characters
PyNone == [type |-> "NoneType"]

Str(chars) == [type |-> "str", chars |-> chars]

\* no call made yet
NotCalled == [type |-> "unset"]

----------------------------------------------------------------------------
(* httpx *)

\* Response.raise_for_status raises HTTPStatusError unless the code is 2xx
is_success(code) == code >= 200 /\ code <= 299

\* Response.json() parses the body
json_parses(body) == body # "not_json"

----------------------------------------------------------------------------
(* check_connection_status *)

NotFoundStatus_4xx(code) == code >= 400 /\ code < 500

NotFoundStatus(code) == code = 404

check_connection_status(sn, r) ==
    IF r.kind # "http"
    THEN [status |-> "error", connection_found |-> FALSE,
          error |-> <<"request failed">>]
    ELSE IF is_success(r.code)
    THEN IF json_parses(r.body)
         THEN [status |-> "success", connection_found |-> TRUE, data |-> r.body]
         ELSE [status |-> "error", connection_found |-> FALSE,
               error |-> <<"response body is not JSON">>]
    ELSE IF NotFoundStatus(r.code)
    THEN [status |-> "pending", connection_found |-> FALSE,
          message |-> <<"No connection found for source: ", sn>>]
    ELSE [status |-> "error", connection_found |-> FALSE,
          error |-> <<"HTTPStatusError", r.code, sn>>,
          status_code |-> r.code]

----------------------------------------------------------------------------
(* check_connection *)

LoopContinues_Short(now, start) ==
    now - start < CONNECTION_CHECK_TIMEOUT - CONNECTION_CHECK_INTERVAL

LoopContinues_Inclusive(now, start) == now - start <= CONNECTION_CHECK_TIMEOUT

\* the while condition
LoopContinues(now, start) == now - start < CONNECTION_CHECK_TIMEOUT

poll_outcome_AnyError(r) ==
    IF r.status = "success" /\ r.connection_found THEN "return"
    ELSE IF r.status = "error"
    THEN IF "error" \notin DOMAIN r THEN "raise" ELSE "return"
    ELSE "sleep"

poll_outcome_NotError(r) ==
    IF r.status = "success" /\ r.connection_found THEN "return"
    ELSE IF r.status = "error"
    THEN IF "error" \notin DOMAIN r THEN "raise" ELSE "sleep"
    ELSE "return"

\* what the loop body does with a poll result:
\*   "return"  one of the two returns inside the loop
\*   "raise"   the log line reads result['error'] and the key is missing
\*   "sleep"   sleep, then test the while condition again
poll_outcome(r) ==
    IF r.status = "success" /\ r.connection_found THEN "return"
    ELSE IF r.status = "error"
    THEN IF "error" \notin DOMAIN r THEN "raise"
         ELSE IF "status_code" \in DOMAIN r /\ r.status_code # 404
              THEN "return"
              ELSE "sleep"
    ELSE "sleep"

\* an exception that leaves the tool instead of a returned dictionary
Raised(e) == [status |-> "raised", exception |-> e]

\* kind of a poll result: a found connection, an error that carries an HTTP
\* status code, or anything else (not found yet, no answer)
PollKind(r) ==
    IF r.status = "success" THEN "success"
    ELSE IF r.status = "error" /\ "status_code" \in DOMAIN r THEN "http_error"
    ELSE "nothing"

TimeoutResult(sn) ==
    [status |-> "timeout", connection_found |-> FALSE,
     message |-> <<"Timeout waiting for connection: ", sn>>]

CallCheckConnection(sn) ==
    /\ pc = "idle"
    /\ tool' = "check_connection"
    /\ short_name' = sn
    /\ start_time' = clock
    /\ pc' = "cc_while"
    /\ UNCHANGED <<clock, resp, result, ret, polls, sleeps, slept, posted, seen>>
    /\ UNCHANGED crudVars
    /\ UNCHANGED mdxVars

CcWhile ==
    /\ pc = "cc_while"
    /\ IF LoopContinues(clock, start_time)
       THEN /\ pc' = "cc_poll"
            /\ ret' = ret
       ELSE /\ pc' = "done"
            /\ ret' = TimeoutResult(short_name)
    /\ UNCHANGED <<tool, short_name, clock, start_time, resp, result, polls,
                   sleeps, slept, posted, seen>>
    /\ UNCHANGED crudVars
    /\ UNCHANGED mdxVars

CcPoll(r, d) ==
    /\ pc = "cc_poll"
    /\ resp' = r
    /\ result' = check_connection_status(short_name, r)
    /\ clock' = clock + d
    /\ polls' = polls + 1
    /\ seen' = seen \cup {PollKind(result')}
    /\ CASE poll_outcome(result') = "return" ->
               /\ ret' = result'
               /\ pc' = "done"
         [] poll_outcome(result') = "raise" ->
               /\ ret' = Raised("KeyError")
               /\ pc' = "done"
         [] OTHER ->
               /\ ret' = ret
               /\ pc' = "cc_sleep"
    /\ UNCHANGED <<tool, short_name, start_time, sleeps, slept, posted>>
    /\ UNCHANGED crudVars
    /\ UNCHANGED mdxVars

CcSleep(j) ==
    /\ pc = "cc_sleep"
    /\ clock' = clock + CONNECTION_CHECK_INTERVAL + j
    /\ sleeps' = sleeps + 1
    /\ slept' = slept + CONNECTION_CHECK_INTERVAL
    /\ pc' = "cc_while"
    /\ resp' = NoResponse
    /\ UNCHANGED <<tool, short_name, start_time, result, ret, polls,
                   posted, seen>>
    /\ UNCHANGED crudVars
    /\ UNCHANGED mdxVars

CcStep ==
    \/ CcWhile
    \/ \E r \in Responses, d \in 0..MaxPollTime : CcPoll(r, d)
    \/ \E j \in 0..MaxJitter : CcSleep(j)

----------------------------------------------------------------------------
(* run_sync_for_source *)

MoreAttempts_OneMore(n) == n <= MAX_RETRIES

\* for _ in range(MAX_RETRIES): n attempts have been made
MoreAttempts(n) == n < MAX_RETRIES

post_outcome_Any5xx(r) ==
    IF r.kind # "http" THEN "retry"
    ELSE IF is_success(r.code)
    THEN IF json_parses(r.body) THEN "success" ELSE "retry"
    ELSE IF r.code = 404 THEN "not_found"
    ELSE IF r.code >= 500
    THEN IF r.body = "json_object" THEN "server_error" ELSE "exception"
    ELSE "retry"

\* how one iteration of the retry loop ends, given the answer to its POST:
\*   "success"       return of the success dictionary
\*   "not_found"     HTTPException raised in the handler, caught by the outer except
\*   "server_error"  return of the dictionary made from the 500 body
\*   "exception"     the 500 body is not JSON, caught by the outer except
\*   "retry"         sleep, then the next iteration
post_outcome(r) ==
    IF r.kind # "http" THEN "retry"
    ELSE IF is_success(r.code)
    THEN IF json_parses(r.body) THEN "success" ELSE "retry"
    ELSE IF r.code = 404 THEN "not_found"
    ELSE IF r.code = 500
    THEN IF r.body = "json_object" THEN "server_error" ELSE "exception"
    ELSE "retry"

MaxRetriesResult ==
    [status |-> "error",
     error |-> <<"Max retries exceeded when trying to run sync">>]

post_result(sn, r) ==
    CASE post_outcome(r) = "success" ->
            [status |-> "success", data |-> r.body]
      [] post_outcome(r) = "not_found" ->
            [status |-> "error", error |-> <<"404: Source not found", sn>>,
             stacktrace |-> <<"traceback">>]
      [] post_outcome(r) = "server_error" ->
            [status |-> "error", error |-> <<"detail", r.body>>,
             stacktrace |-> <<"stacktrace", r.body>>, status_code |-> r.code]
      [] post_outcome(r) = "exception" ->
            [status |-> "error", error |-> <<"exception">>,
             stacktrace |-> <<"traceback">>]
      [] OTHER -> NoResult

RsfsFor ==
    /\ pc = "rsfs_for"
    /\ IF MoreAttempts(Len(posted))
       THEN /\ pc' = "rsfs_post"
            /\ ret' = ret
       ELSE /\ pc' = "done"
            /\ ret' = MaxRetriesResult
    /\ UNCHANGED <<tool, short_name, clock, start_time, resp, result, polls,
                   sleeps, slept, posted, seen>>
    /\ UNCHANGED crudVars
    /\ UNCHANGED mdxVars

RsfsPost(r, d) ==
    /\ pc = "rsfs_post"
    /\ posted' = Append(posted, r)
    /\ clock' = clock + d
    /\ IF post_outcome(r) = "retry"
       THEN /\ pc' = "rsfs_sleep"
            /\ ret' = ret
       ELSE /\ pc' = "done"
            /\ ret' = post_result(short_name, r)
    /\ UNCHANGED <<tool, short_name, start_time, resp, result, polls, sleeps,
                   slept, seen>>
    /\ UNCHANGED crudVars
    /\ UNCHANGED mdxVars

RsfsSleep(j) ==
    /\ pc = "rsfs_sleep"
    /\ clock' = clock + RETRY_DELAY + j
    /\ sleeps' = sleeps + 1
    /\ slept' = slept + RETRY_DELAY
    /\ pc' = "rsfs_for"
    /\ UNCHANGED <<tool, short_name, start_time, resp, result, ret, polls,
                   posted, seen>>
    /\ UNCHANGED crudVars
    /\ UNCHANGED mdxVars

----------------------------------------------------------------------------
(* run_sync *)

ConnectionOk_NotError(r) == r.status # "error"

\* negation of the condition of the early return
ConnectionOk(r) == ~(r.status # "success" \/ ~r.connection_found)

NoConnectionError(sn) ==
    [status |-> "error",
     error |-> <<"No connection found for source: ", sn>>,
     message |-> <<"Please ensure a connection is established before running a sync">>]

\* what run_sync does with the answer to its status GET
run_sync_check_PassThrough(sn, r) ==
    IF ConnectionOk(check_connection_status(sn, r))
    THEN [status |-> "proceed"]
    ELSE check_connection_status(sn, r)

run_sync_check(sn, r) ==
    IF ConnectionOk(check_connection_status(sn, r))
    THEN [status |-> "proceed"]
    ELSE NoConnectionError(sn)

CallRunSync(sn) ==
    /\ pc = "idle"
    /\ tool' = "run_sync"
    /\ short_name' = sn
    /\ pc' = "rs_check"
    /\ UNCHANGED <<clock, start_time, resp, result, ret, polls, sleeps, slept,
                   posted, seen>>
    /\ UNCHANGED crudVars
    /\ UNCHANGED mdxVars

RsCheck(r, d) ==
    /\ pc = "rs_check"
    /\ resp' = r
    /\ result' = check_connection_status(short_name, r)
    /\ clock' = clock + d
    /\ polls' = polls + 1
    /\ IF run_sync_check(short_name, r).status = "proceed"
       THEN /\ pc' = "rsfs_for"
            /\ ret' = ret
       ELSE /\ pc' = "done"
            /\ ret' = run_sync_check(short_name, r)
    /\ UNCHANGED <<tool, short_name, start_time, sleeps, slept, posted, seen>>
    /\ UNCHANGED crudVars
    /\ UNCHANGED mdxVars

RsStep ==
    \/ \E r \in Responses, d \in 0..MaxPollTime : RsCheck(r, d)
    \/ RsfsFor
    \/ \E r \in Responses, d \in 0..MaxPollTime : RsfsPost(r, d)
    \/ \E j \in 0..MaxJitter : RsfsSleep(j)

----------------------------------------------------------------------------
(* The server: one tool invocation, from the call to its return *)

NoQuery == [name |-> "none"]

InitMcp ==
    /\ tool = "none"
    /\ short_name = "none"
    /\ pc = "idle"
    /\ start_time = 0
    /\ resp = NoResponse
    /\ result = NoResult
    /\ ret = NoResult
    /\ polls = 0
    /\ sleeps = 0
    /\ slept = 0
    /\ posted = <<>>
    /\ seen = {}

Init ==
    /\ InitMcp
    /\ clock \in StartClocks
    /\ db = <<>>
    /\ query = NoQuery
    /\ rows = <<>>
    /\ text = NotCalled
    /\ escaped = NotCalled
    /\ again = NotCalled

Next ==
    \/ \E sn \in ShortNames : CallCheckConnection(sn)
    \/ \E sn \in ShortNames : CallRunSync(sn)
    \/ CcStep
    \/ RsStep

Spec == Init /\ [][Next]_vars

\* every status poll returns and every sleep ends
FairSpec == Spec /\ WF_vars(CcStep) /\ WF_vars(RsStep)

----------------------------------------------------------------------------
(* CRUDConnection: queries over the connection table *)

IntegrationTypes == {"SOURCE", "DESTINATION"}

ConnectionStatuses == {"ACTIVE", "INACTIVE"}

Organizations == {"org1", "org2"}

RowValues ==
    [integration_type : IntegrationTypes, organization_id : Organizations,
     status : ConnectionStatuses, short_name : ShortNames]

Row(i, v) ==
    [id |-> i, integration_type |-> v.integration_type,
     organization_id |-> v.organization_id, status |-> v.status,
     short_name |-> v.short_name]

\* the tables of at most MaxConns rows; the primary key is the row's position
Tables ==
    UNION { { [i \in 1..n |-> Row(i, f[i])] : f \in [1..n -> RowValues] } :
            n \in 0..MaxConns }

Users == [organization_id : Organizations]

\* select(Connection).where(integration_type == ..., organization_id == ...)
get_by_integration_type(table, integration_type, organization_id) ==
    LET where(c) == /\ c.integration_type = integration_type
                    /\ c.organization_id = organization_id
    IN  SelectSeq(table, where)

get_active_by_integration_type(table, integration_type, organization_id) ==
    LET where(c) == /\ c.integration_type = integration_type
                    /\ c.organization_id = organization_id
                    /\ c.status = "ACTIVE"
    IN  SelectSeq(table, where)

get_all_by_short_name_AnyOrg(table, sn, current_user) ==
    LET where(c) == c.short_name = sn
    IN  SelectSeq(table, where)

get_all_by_short_name(table, sn, current_user) ==
    LET where(c) == /\ c.short_name = sn
                    /\ c.organization_id = current_user.organization_id
    IN  SelectSeq(table, where)

GetByIntegrationType(t, o) ==
    /\ query' = [name |-> "get_by_integration_type", integration_type |-> t,
                 organization_id |-> o]
    /\ rows' = get_by_integration_type(db, t, o)
    /\ UNCHANGED db
    /\ UNCHANGED mcpVars
    /\ UNCHANGED mdxVars

GetActiveByIntegrationType(t, o) ==
    /\ query' = [name |-> "get_active_by_integration_type",
                 integration_type |-> t, organization_id |-> o]
    /\ rows' = get_active_by_integration_type(db, t, o)
    /\ UNCHANGED db
    /\ UNCHANGED mcpVars
    /\ UNCHANGED mdxVars

GetAllByShortName(sn, u) ==
    /\ query' = [name |-> "get_all_by_short_name", short_name |-> sn,
                 current_user |-> u]
    /\ rows' = get_all_by_short_name(db, sn, u)
    /\ UNCHANGED db
    /\ UNCHANGED mcpVars
    /\ UNCHANGED mdxVars

InitCrud ==
    /\ InitMcp
    /\ clock = 0
    /\ db \in Tables
    /\ query = NoQuery
    /\ rows = <<>>
    /\ text = NotCalled
    /\ escaped = NotCalled
    /\ again = NotCalled

NextCrud ==
    \/ \E t \in IntegrationTypes, o \in Organizations : GetByIntegrationType(t, o)
    \/ \E t \in IntegrationTypes, o \in Organizations :
          GetActiveByIntegrationType(t, o)
    \/ \E sn \in ShortNames, u \in Users : GetAllByShortName(sn, u)

SpecCrud == InitCrud /\ [][NextCrud]_vars

----------------------------------------------------------------------------
(* mdx_generator.py: escape_mdx_special_chars *)

\* longest text given to escape_mdx_special_chars
MaxTextLen == 3

Chars == {"<", ">", "&", ";", "a"}

Texts == UNION { [1..n -> Chars] : n \in 0..MaxTextLen }

\* str.replace(old, new): every non-overlapping occurrence of old, found
\* from the left, becomes new
RECURSIVE str_replace(_, _, _)
str_replace(s, old, new) ==
    IF Len(s) < Len(old) THEN s
    ELSE IF SubSeq(s, 1, Len(old)) = old
    THEN new \o str_replace(SubSeq(s, Len(old) + 1, Len(s)), old, new)
    ELSE <<Head(s)>> \o str_replace(Tail(s), old, new)

\* `not text`: None and the empty string are falsy
falsy(v) == v.type = "NoneType" \/ (v.type = "str" /\ Len(v.chars) = 0)

LT == <<"&", "l", "t", ";">>

GT == <<"&", "g", "t", ";">>

escape_mdx_special_chars_OnlyLt(v) ==
    IF falsy(v) THEN v
    ELSE Str(str_replace(v.chars, <<"<">>, LT))

escape_mdx_special_chars(v) ==
    IF falsy(v) THEN v
    ELSE Str(str_replace(str_replace(v.chars, <<"<">>, LT), <<">">>, GT))

Escape ==
    /\ escaped = NotCalled
    /\ escaped' = escape_mdx_special_chars(text)
    /\ UNCHANGED <<text, again>>
    /\ UNCHANGED mcpVars
    /\ UNCHANGED crudVars

EscapeAgain ==
    /\ escaped # NotCalled
    /\ again = NotCalled
    /\ again' = escape_mdx_special_chars(escaped)
    /\ UNCHANGED <<text, escaped>>
    /\ UNCHANGED mcpVars
    /\ UNCHANGED crudVars

InitMdx ==
    /\ InitMcp
    /\ clock = 0
    /\ db = <<>>
    /\ query = NoQuery
    /\ rows = <<>>
    /\ text \in {PyNone} \cup {Str(t) : t \in Texts}
    /\ escaped = NotCalled
    /\ again = NotCalled

NextMdx ==
    \/ Escape
    \/ EscapeAgain

SpecMdx == InitMdx /\ [][NextMdx]_vars

----------------------------------------------------------------------------
(* Properties *)

CcDone == tool = "check_connection" /\ pc = "done"

RsDone == tool = "run_sync" /\ pc = "done"

Elapsed == clock - start_time

Is5xx(r) == r.kind = "http" /\ r.code >= 500 /\ r.code <= 599

\* the attempt that got answer number i was followed by a retry, or by the
\* exhausted-retries error when it was the last of MAX_RETRIES attempts
RetriedThenExhausted(i) ==
    \/ i < Len(posted)
    \/ pc \in {"rsfs_sleep", "rsfs_for", "rsfs_post"}
    \/ /\ pc = "done"
       /\ Len(posted) = MAX_RETRIES
       /\ ret = MaxRetriesResult

C2_Every5xxRetried ==
    \A i \in 1..Len(posted) : Is5xx(posted[i]) => RetriedThenExhausted(i)

\* C2 amended: every 5xx answer other than 500 is retried after a sleep of 2
\* seconds and surfaced only as the exhausted-retries error after
\* MAX_RETRIES = 3 attempts; a 500 is not retried: it ends the call at once
\* with an error result that is not the exhausted-retries error.
C2_5xxOtherThan500Retried ==
    /\ MAX_RETRIES = 3 /\ RETRY_DELAY = 2
    /\ \A i \in 1..Len(posted) :
          /\ (Is5xx(posted[i]) /\ posted[i].code # 500) =>
                RetriedThenExhausted(i)
          /\ (Is5xx(posted[i]) /\ posted[i].code = 500) =>
                /\ i = Len(posted)
                /\ pc = "done"
                /\ ret.status = "error"
                /\ ret # MaxRetriesResult
    /\ tool = "run_sync" =>
          /\ slept = RETRY_DELAY * sleeps
          /\ pc \in {"rsfs_for", "rsfs_post"} => sleeps = Len(posted)
          /\ (pc = "done" /\ ret = MaxRetriesResult) => sleeps = MAX_RETRIES

C2_Witness ==
    /\ RsDone
    /\ ret = MaxRetriesResult
    /\ \A i \in 1..Len(posted) : Is5xx(posted[i])
    /\ \E i \in 1..Len(posted) : posted[i].code = 502
    /\ \E i \in 1..Len(posted) : posted[i].code = 503

\* C3: when every poll returns and every sleep ends after at least the
\* interval, check_connection returns; it returns the timeout result when no
\* poll returned success or an error with an HTTP status code; and it never
\* returns the timeout result before CONNECTION_CHECK_TIMEOUT has elapsed.
C3_TimeoutAfterWindow ==
    /\ (tool = "check_connection") ~> (pc = "done")
    /\ [](CcDone /\ seen \cap {"success", "http_error"} = {}
            => ret = TimeoutResult(short_name))
    /\ []((tool = "check_connection" /\ ret.status = "timeout")
            => Elapsed >= CONNECTION_CHECK_TIMEOUT)

C3_Witness ==
    /\ CcDone
    /\ ret = TimeoutResult(short_name)
    /\ polls > 1
    /\ seen = {"nothing"}

\* C4: run_sync sends a sync-trigger POST only after its own status check
\* returned success with connection_found; after any other check result it
\* sends no POST and returns an error; the status GET precedes every POST.
C4_PostOnlyAfterSuccessfulCheck ==
    /\ Len(posted) > 0 =>
          /\ tool = "run_sync"
          /\ polls = 1
          /\ result.status = "success" /\ result.connection_found
    /\ (tool = "run_sync" /\ pc # "rs_check"
            /\ ~(result.status = "success" /\ result.connection_found)) =>
          /\ pc = "done"
          /\ posted = <<>>
          /\ ret.status = "error"

C4_Witness ==
    /\ RsDone
    /\ Len(posted) > 1
    /\ ret.status = "success"

\* the three failure kinds of the status check, by the answer to the GET
FailureKind(r) ==
    IF r.kind = "failure" THEN "generic"
    ELSE IF r.kind = "http" /\ r.code = 404 THEN "not_found"
    ELSE IF r.kind = "http" /\ ~is_success(r.code) THEN "server_error"
    ELSE "none"

FailedChecks == {r \in Responses : FailureKind(r) # "none"}

\* C5 as stated: run_sync's error result after a failed status check differs
\* from the result it gives for a failure of either other kind.
C5_RunSyncDistinguishesFailureKinds ==
    (RsDone /\ FailureKind(resp) # "none") =>
        \A r2 \in FailedChecks :
            FailureKind(r2) # FailureKind(resp) =>
                run_sync_check(short_name, r2) # ret

\* C5 amended: the result of check_connection_status distinguishes the three
\* failure kinds (404: status pending; another HTTP error status: status
\* error with that status_code; no HTTP response: status error without a
\* status_code), but run_sync returns one and the same error dictionary,
\* 'No connection found for source: <short_name>', for all three.
C5_StatusCheckDistinguishesRunSyncDoesNot ==
    (tool = "run_sync" /\ FailureKind(resp) # "none") =>
        /\ pc = "done"
        /\ ret = NoConnectionError(short_name)
        /\ \A r2 \in FailedChecks :
              /\ run_sync_check(short_name, r2) = ret
              /\ FailureKind(r2) # FailureKind(resp) =>
                    check_connection_status(short_name, r2) # result
        /\ FailureKind(resp) = "not_found" => result.status = "pending"
        /\ FailureKind(resp) = "server_error" =>
              /\ result.status = "error"
              /\ "status_code" \in DOMAIN result
              /\ result.status_code = resp.code
        /\ FailureKind(resp) = "generic" =>
              /\ result.status = "error"
              /\ "status_code" \notin DOMAIN result

C5_Witness ==
    /\ RsDone
    /\ FailureKind(resp) = "server_error"
    /\ ret = NoConnectionError(short_name)
    /\ result.status_code = 500

\* C6: for every short name, check_connection_status returns status pending
\* with connection_found false when the GET is answered with 404, and an
\* error result, never pending, for every other HTTP error status and for a
\* request that got no response.
C6_NotFoundYieldsPending ==
    /\ (resp.kind = "http" /\ resp.code = 404) =>
          /\ result.status = "pending"
          /\ result.connection_found = FALSE
          /\ result.message = <<"No connection found for source: ", short_name>>
    /\ \/ resp.kind = "http" /\ ~is_success(resp.code) /\ resp.code # 404
       \/ resp.kind = "failure"
       => /\ result.status = "error"
          /\ result.connection_found = FALSE

C6_Witness ==
    /\ tool = "check_connection"
    /\ resp.kind = "http" /\ resp.code = 404
    /\ result.status = "pending"
    /\ polls > 1

\* C7: every return of check_connection is a dictionary with status success,
\* error or timeout, never pending; every return of run_sync is a dictionary
\* with status success or error; no exception leaves either tool.
C7_StructuredResults ==
    /\ CcDone => ret.status \in {"success", "error", "timeout"}
    /\ RsDone => ret.status \in {"success", "error"}
    /\ pc # "done" => ret = NoResult

C7_Witness ==
    /\ RsDone
    /\ Len(posted) > 0
    /\ posted[Len(posted)].code = 500
    /\ posted[Len(posted)].body = "not_json"
    /\ ret.status = "error"

\* the answers after which the loop of run_sync_for_source tries again: an
\* HTTP error status other than 404 and 500, or an exception that is not an
\* HTTP status error (no response, or a 2xx body that is not JSON)
Retryable(r) ==
    \/ r.kind = "failure"
    \/ r.kind = "http" /\ ~is_success(r.code) /\ r.code \notin {404, 500}
    \/ r.kind = "http" /\ is_success(r.code) /\ r.body = "not_json"

Successful(r) == r.kind = "http" /\ is_success(r.code) /\ r.body # "not_json"

\* C8: one invocation sends at most MAX_RETRIES = 3 POSTs; it returns the
\* exhausted-retries error exactly when three attempts were made and all
\* ended in a retryable failure; a successful attempt is the last one and
\* the call returns status success.
C8_AtMostMaxRetriesPosts ==
    /\ MAX_RETRIES = 3
    /\ Len(posted) <= MAX_RETRIES
    /\ pc = "done" =>
          (ret = MaxRetriesResult <=>
              /\ tool = "run_sync"
              /\ Len(posted) = MAX_RETRIES
              /\ \A i \in 1..Len(posted) : Retryable(posted[i]))
    /\ \A i \in 1..Len(posted) :
          Successful(posted[i]) =>
              /\ i = Len(posted)
              /\ pc = "done"
              /\ ret.status = "success"

C8_Witness ==
    /\ RsDone
    /\ Len(posted) = MAX_RETRIES
    /\ ret = MaxRetriesResult
    /\ \E i \in 1..Len(posted) : posted[i].kind = "failure"

Range(seq) == {seq[i] : i \in 1..Len(seq)}

\* the list holds exactly the rows of S, each once
ExactlyRows(list, S) == Range(list) = S /\ Len(list) = Cardinality(S)

C9_Scoped ==
    /\ query.name = "get_by_integration_type" =>
          /\ ExactlyRows(rows,
                {c \in Range(db) :
                    /\ c.integration_type = query.integration_type
                    /\ c.organization_id = query.organization_id})
          /\ \A c \in Range(rows) : c.organization_id = query.organization_id
    /\ query.name = "get_active_by_integration_type" =>
          /\ ExactlyRows(rows,
                {c \in Range(get_by_integration_type(db, query.integration_type,
                                                     query.organization_id)) :
                    c.status = "ACTIVE"})
          /\ \A c \in Range(rows) : c.organization_id = query.organization_id
    /\ query.name = "get_all_by_short_name" =>
          /\ ExactlyRows(rows,
                {c \in Range(db) :
                    /\ c.short_name = query.short_name
                    /\ c.organization_id = query.current_user.organization_id})
          /\ \A c \in Range(rows) :
                c.organization_id = query.current_user.organization_id

\* C9: each query returns exactly the stored connections that match its
\* arguments within the given organization (the active ones being a subset
\* of those of the integration type), none returns a connection of another
\* organization, and none changes the stored connections.
C9_QueriesScopedToOrganization == []C9_Scoped /\ [][db' = db]_vars

C9_Witness ==
    /\ query.name = "get_all_by_short_name"
    /\ Len(rows) >= 1
    /\ \E c \in Range(db) :
          /\ c.short_name = query.short_name
          /\ c.organization_id # query.current_user.organization_id

\* C10: every call polls at least once before it returns; consecutive polls
\* are separated by exactly one sleep of CONNECTION_CHECK_INTERVAL = 5
\* seconds, each of which advances the clock by at least that much; one call
\* makes at most CONNECTION_CHECK_TIMEOUT / CONNECTION_CHECK_INTERVAL = 60
\* polls.
C10_BoundedFixedIntervalPolling ==
    tool = "check_connection" =>
        /\ CONNECTION_CHECK_INTERVAL = 5
        /\ pc = "done" => polls >= 1
        /\ pc \in {"cc_while", "cc_poll"} => polls = sleeps
        /\ pc = "cc_sleep" => polls = sleeps + 1
        /\ pc = "done" =>
              IF ret.status = "timeout" THEN polls = sleeps
              ELSE polls = sleeps + 1
        /\ slept = CONNECTION_CHECK_INTERVAL * sleeps
        /\ Elapsed >= CONNECTION_CHECK_INTERVAL * sleeps
        /\ polls <= CONNECTION_CHECK_TIMEOUT \div CONNECTION_CHECK_INTERVAL
        /\ CONNECTION_CHECK_TIMEOUT \div CONNECTION_CHECK_INTERVAL = 60

C10_Witness ==
    /\ CcDone
    /\ polls = 60
    /\ sleeps = 59
    /\ ret.status = "success"

\* the text with each '<' spelled '&lt;', each '>' spelled '&gt;' and every
\* other character kept, in order
RECURSIVE Spelled(_)
Spelled(s) ==
    IF s = <<>> THEN <<>>
    ELSE (CASE Head(s) = "<" -> LT
            [] Head(s) = ">" -> GT
            [] OTHER -> <<Head(s)>>) \o Spelled(Tail(s))

\* C11: for a non-empty text escape_mdx_special_chars returns the text with
\* each '<' replaced by '&lt;' and each '>' by '&gt;', the other characters
\* kept in order; the result holds no '<' or '>' and escaping it again
\* leaves it unchanged; an empty or None text is returned unchanged.
C11_EscapesAngleBrackets ==
    /\ (escaped # NotCalled /\ ~falsy(text)) =>
          /\ escaped = Str(Spelled(text.chars))
          /\ \A i \in 1..Len(escaped.chars) : escaped.chars[i] \notin {"<", ">"}
    /\ (escaped # NotCalled /\ falsy(text)) => escaped = text
    /\ again # NotCalled => again = escaped

C11_Witness ==
    /\ again # NotCalled
    /\ text.type = "str"
    /\ \E i \in 1..Len(text.chars) : text.chars[i] = "<"
    /\ \E i \in 1..Len(text.chars) : text.chars[i] = ">"
    /\ \E i \in 1..Len(text.chars) : text.chars[i] = "&"
    /\ Len(escaped.chars) = Len(text.chars) + 6

====
